---- MODULE Spec2Model ----
(***************************************************************************)
(* AutoScraper: the scheduler guard and start-up (src/src/scheduler.py,    *)
(* src/src/main.py), the fetch layer with retry and backoff                *)
(* (Scraper._fetch), the page loop of a scrape run (Scraper.run,           *)
(* Scraper._process_single_listing) and the page parser                    *)
(* (src/src/parser.py).                                                    *)
(*                                                                         *)
(* The state machines share the variables below; each specification moves  *)
(* its own part of the state and leaves the rest at its initial value:     *)
(*   Spec / FairSpec   AppScheduler: cron firings, _guarded, asyncio.Lock  *)
(*   SpecStart         AppScheduler.start and _parse_hhmm                  *)
(*   SpecFetch         Scraper._fetch: one call, attempt by attempt        *)
(*   SpecPool          concurrent _fetch calls on the one semaphore        *)
(*   SpecRun           Scraper.run: pages, listing tasks, the sink         *)
(*   SpecScan          _find_json_end                                      *)
(*   SpecDeep          _deep_find                                          *)
(*   SpecParse         parse_listing and the id gate of the phone lookup   *)
(*   SpecLd            parse_listing: the linked data and the price        *)
(***************************************************************************)
EXTENDS Integers, Sequences, FiniteSets, TLC

VARIABLES
    \* ---- scheduler (scheduler.py, main.py) ----
    env_run_on_startup, \* the environment variable RUN_ON_STARTUP ("unset": not set)
    cfg_run_on_startup, \* ScheduleConfig.run_on_startup
    time_value,         \* the configured time that _parse_hhmm is given, a sequence of characters
    which_time,         \* the setting that holds it: "scrape_time" | "dump_time"
    hhmm,               \* what _parse_hhmm made of it
    jobs,               \* the ids of the jobs registered by add_job
    sched_started,      \* self.scheduler.start() was called
    h_pc,               \* "idle" | "ready" | "started" | "raised"
    main_pc,            \* position of main(): "main" | "sleeping"
    locked,             \* asyncio.Lock._locked of AppScheduler._lock
    waiters,            \* asyncio.Lock._waiters, FIFO of the tasks suspended in acquire()
    woken,              \* waiters whose future has its result set by release()
    pc,                 \* per task: "idle" | "called" | "waiting" | "running"
    acquiredHow,        \* per task: how its latest call got the lock: "none" | "fast" | "queued"
    fired,              \* per cron job: firings of its trigger
    dropped,            \* per cron job: firings the scheduler did not submit (max_instances)
    invoked,            \* per task: calls of the job body (await coro())
    skipped,            \* per task: "skipped: job already running" returns
    failures,           \* log.exception("%s failed") records
    escaped,            \* kinds of exception that left _guarded
    \* ---- fetch layer (Scraper._fetch) ----
    max_retries,        \* MAX_RETRIES, the configured attempt count
    f_pc,               \* "idle" | "loop" | "request" | "sleeping" | "done"
    attempt,            \* the loop variable of for attempt in range(1, MAX_RETRIES + 1)
    backoff,            \* the local backoff, in seconds
    attempts,           \* session.get calls made
    delays,             \* the asyncio.sleep(backoff) calls made, in order
    last_status,        \* the status of the latest attempt (0: none, or it raised)
    last_error,         \* the exception of the latest attempt ("none": it gave a status)
    only503,            \* every response so far had status 503
    onlyTransport,      \* every attempt so far ended in a transport error or timeout
    f_result,           \* "pending" | "body" | "None"
    f_raised,           \* "none" or the exception kind that left _fetch
    sem_held,           \* permits of self.sem held by the call
    max_concurrency,    \* MAX_CONCURRENCY, the permits of self.sem
    \* ---- concurrent _fetch calls on the one semaphore (Scraper.sem) ----
    sem_value,          \* self.sem._value
    sem_waiters,        \* self.sem._waiters: the calls suspended in acquire(), in order
    sem_woken,          \* waiters whose future is resolved and that have not resumed yet
    c_pc,               \* per call: "idle" | "loop" | "acquiring" | "request" | "sleeping" | "done"
    c_attempt,          \* per call: the loop variable attempt
    permit,             \* per call: it is inside async with self.sem
    \* ---- scrape run (Scraper.run, Scraper._process_single_listing) ----
    max_pages,          \* MAX_PAGES_TO_SCRAPE
    r_pc,               \* "start" | "loop" | "search" | "gather" | "done" | "failed"
    total_pages,        \* the result of get_total_pages
    pages_to_scan,
    page_num,           \* the loop variable of for page_num in range(1, pages_to_scan + 1)
    tasks,              \* the listing tasks of the latest page: url -> "fetch" | "lookup" | "insert" | "done"
    handed,             \* per url: times it was handed to _process_single_listing
    finished,           \* listing tasks that have ended
    validated,          \* CarListing records built that passed every check
    sink_calls,         \* the sizes of the lists given to db.insert_batch, in call order
    db,                 \* the urls stored in car_listings
    inserting,          \* the urls whose db.insert_batch call has not returned yet
    ev,                 \* the kind of the latest thing that happened in the run
    \* ---- parser (_find_json_end) ----
    text,               \* the text given to _find_json_end, a sequence of characters
    start,              \* the start index given to it (counted from 0, as in Python)
    json_end,           \* what it returned (None: no closing brace)
    s_pc,               \* "idle" | "ready" | "done"
    \* ---- parser (_deep_find) ----
    data,               \* the structure searched: nodes 1..n, node 1 the root
    key,                \* the key searched for
    yielded,            \* the values yielded, in order (each named by its node)
    d_pc,               \* "idle" | "ready" | "done"
    \* ---- parser (parse_listing) and the scraper's lookup gate ----
    page,               \* what the page text holds, by kind of value
    parsed,             \* what parse_listing gave
    lookup,             \* what _get_phone_number found and whether it sent the POST
    p_pc,               \* "idle" | "ready" | "parsed" | "looked"
    enable_phone_fetch, \* ENABLE_PHONE_FETCH of config.py
    \* ---- parser (parse_listing: linked data, price) ----
    ld_page,            \* what the page holds for the linked data and the price
    fields,             \* the fields parse_listing resolved from it
    l_pc                \* "idle" | "ready" | "done"

hhmm_vars == <<time_value, which_time, hhmm, jobs, sched_started, h_pc>>
sched_vars == <<env_run_on_startup, hhmm_vars, cfg_run_on_startup, main_pc, locked, waiters, woken, pc, acquiredHow,
                fired, dropped, invoked, skipped, failures, escaped>>
pool_vars == <<sem_value, sem_waiters, sem_woken, c_pc, c_attempt, permit>>
fetch_vars == <<max_retries, f_pc, attempt, backoff, attempts, delays, last_status, last_error, only503,
                onlyTransport, f_result, f_raised, sem_held, max_concurrency, pool_vars>>
run_vars == <<max_pages, r_pc, total_pages, pages_to_scan, page_num, tasks, handed,
              finished, validated, sink_calls, db, inserting, ev>>
scan_vars == <<text, start, json_end, s_pc>>
deep_vars == <<data, key, yielded, d_pc>>
parse_vars == <<page, parsed, lookup, p_pc, enable_phone_fetch>>
ld_vars == <<ld_page, fields, l_pc>>
parser_vars == <<scan_vars, deep_vars, parse_vars, ld_vars>>
vars == <<sched_vars, fetch_vars, run_vars, parser_vars>>

----------------------------------------------------------------------------
(* Bounds of the model *)

\* cron firings of each job that the model follows
MaxFirings == 2

\* the largest configured attempt count (MAX_RETRIES) the model draws
MaxRetriesBound == 8

\* the largest configured semaphore size (MAX_CONCURRENCY) the model draws
MaxConcurrencyBound == 2

\* the largest configured page limit (MAX_PAGES_TO_SCRAPE) the model draws
MaxPagesBound == 2

\* the listing urls of the site are 1..MaxUrls
MaxUrls == 2
MaxTextLen == 6
MaxNodes == 4
MaxTimeLen == 5
MaxFetchers == 3
MaxPoolRetries == 2

Urls == 1..MaxUrls

----------------------------------------------------------------------------
(* Scheduler guard *)

CronJobs == {"scrape", "dump"}
\* the two cron job instances and the task created by run_forever
Tasks == {"scrape", "dump", "startup"}

\* _scrape_job passes wait=False, _dump_job passes wait=True
WaitFlag(t) == t = "dump"

\* add_job(..., max_instances=1, ...)
max_instances == 1

\* what a job body can end with: a normal return, an Exception subclass, or a
\* BaseException that is no Exception (asyncio.CancelledError, KeyboardInterrupt)
BodyOutcomes == {"ok", "Exception", "BaseException"}

\* DB.create_dump: a non-zero pg_dump exit raises RuntimeError
create_dump(returncode) == IF returncode # 0 THEN "Exception" ELSE "ok"

\* the outcomes of run_scrape / run_dump
Outcomes(t) ==
    IF t = "dump"
    THEN {create_dump(rc) : rc \in {0, 1}} \cup {"BaseException"}
    ELSE BodyOutcomes

\* the values of RUN_ON_STARTUP the model draws
EnvValues == {"unset", "", "false", "0", "off", "true"}

\* run_on_startup=bool(os.getenv("RUN_ON_STARTUP")) of main.py: os.getenv gives
\* None for an unset variable, and bool of a string is True unless it is empty
LoadedRunOnStartup(env) == env \notin {"unset", ""}

\* a rejected time: _parse_hhmm raised
Rejected == [ok |-> FALSE, hh |-> 0, mm |-> 0]

\* AppScheduler.start has not been called
InitStartIdle ==
    /\ time_value = <<>>
    /\ which_time = "scrape_time"
    /\ hhmm = Rejected
    /\ jobs = {}
    /\ sched_started = FALSE
    /\ h_pc = "idle"

InitSched ==
    /\ env_run_on_startup \in EnvValues
    /\ cfg_run_on_startup = LoadedRunOnStartup(env_run_on_startup)
    /\ InitStartIdle
    /\ main_pc = "main"
    /\ locked = FALSE
    /\ waiters = <<>>
    /\ woken = {}
    /\ pc = [t \in Tasks |-> "idle"]
    /\ acquiredHow = [t \in Tasks |-> "none"]
    /\ fired = [j \in CronJobs |-> 0]
    /\ dropped = [j \in CronJobs |-> 0]
    /\ invoked = [t \in Tasks |-> 0]
    /\ skipped = [t \in Tasks |-> 0]
    /\ failures = 0
    /\ escaped = {}

\* the _fetch calls that can be open at once
Fetchers == 1..MaxFetchers

\* no _fetch call has been made on the semaphore
InitPoolIdle ==
    /\ sem_value = 0
    /\ sem_waiters = <<>>
    /\ sem_woken = {}
    /\ c_pc = [i \in Fetchers |-> "idle"]
    /\ c_attempt = [i \in Fetchers |-> 0]
    /\ permit = [i \in Fetchers |-> FALSE]

InitFetchIdle ==
    /\ max_retries = 0
    /\ f_pc = "idle"
    /\ attempt = 0
    /\ backoff = 0
    /\ attempts = 0
    /\ delays = <<>>
    /\ last_status = 0
    /\ last_error = "none"
    /\ only503 = TRUE
    /\ onlyTransport = TRUE
    /\ f_result = "pending"
    /\ f_raised = "none"
    /\ sem_held = 0
    /\ max_concurrency = 1
    /\ InitPoolIdle

\* no run has been started
InitRunIdle ==
    /\ max_pages = 0
    /\ r_pc = "start"
    /\ total_pages = 0
    /\ pages_to_scan = 0
    /\ page_num = 0
    /\ tasks = [u \in {} |-> "done"]
    /\ handed = [u \in Urls |-> 0]
    /\ finished = 0
    /\ validated = 0
    /\ sink_calls = <<>>
    /\ db = {}
    /\ inserting = {}
    /\ ev = "none"

\* Python's None where a number is expected
None == 0 - 1

\* _find_json_end has not been called
InitScanIdle ==
    /\ text = <<>>
    /\ start = 0
    /\ json_end = None
    /\ s_pc = "idle"

\* the structure that is one scalar
Scalar == [n |-> 1, parent |-> <<0>>, kind |-> <<"leaf">>, keyOf |-> <<"-">>]

\* _deep_find has not been called
InitDeepIdle ==
    /\ data = Scalar
    /\ key = "a"
    /\ yielded = <<>>
    /\ d_pc = "idle"

\* a page text without payload and without identifiers
EmptyPage ==
    [pinia |-> "no_marker", root |-> "mapping", title |-> "absent", ld_name |-> "absent",
     title_html |-> "empty_str", owner_name |-> "absent", phone_id |-> "absent",
     auto_id |-> "absent", auto_id_deep |-> "absent", user_id_deep |-> "absent",
     owner_id |-> "absent"]

NotParsed == [raised |-> FALSE, title |-> "absent", username |-> "absent", phone_meta |-> FALSE]

NotLooked == [ids |-> {}, post |-> FALSE]

\* parse_listing and _get_phone_number have not been called
InitParseIdle ==
    /\ page = EmptyPage
    /\ parsed = NotParsed
    /\ lookup = NotLooked
    /\ p_pc = "idle"
    /\ enable_phone_fetch = FALSE

\* a page without linked data and without a price anywhere
NoLdPage ==
    [ld_form |-> "absent", ld_name |-> "absent", offers_price |-> "absent",
     ld_mileage |-> "absent", ld_vin |-> "absent", prices_usd |-> "absent",
     title_price |-> "absent", meta_price |-> "absent"]

NoFields ==
    [name |-> "absent", price |-> "absent", price_from |-> "none",
     odometer |-> "absent", car_vin |-> "absent"]

InitLdIdle ==
    /\ ld_page = NoLdPage
    /\ fields = NoFields
    /\ l_pc = "idle"

InitParserIdle == InitScanIdle /\ InitDeepIdle /\ InitParseIdle /\ InitLdIdle

Init == InitSched /\ InitFetchIdle /\ InitRunIdle /\ InitParserIdle

\* main(): scheduler.start() registers both jobs and starts the scheduler, then
\* run_forever() creates the startup scrape task if configured and sleeps. No await
\* lies between them, so no job runs in between.
StartAndRunForever ==
    /\ main_pc = "main"
    /\ main_pc' = "sleeping"
    /\ pc' = IF cfg_run_on_startup THEN [pc EXCEPT !["startup"] = "called"] ELSE pc
    /\ UNCHANGED <<env_run_on_startup, hhmm_vars, cfg_run_on_startup, locked, waiters, woken, acquiredHow, fired,
                   dropped, invoked, skipped, failures, escaped>>
    /\ UNCHANGED <<fetch_vars, run_vars, parser_vars>>

\* instances of job j that are submitted and not finished
Instances(j) == IF pc[j] = "idle" THEN 0 ELSE 1

\* A cron trigger fires. The scheduler submits the job unless max_instances
\* instances of it are still running; then it logs and drops the firing.
CronFire(j) ==
    /\ main_pc = "sleeping"
    /\ fired[j] < MaxFirings
    /\ fired' = [fired EXCEPT ![j] = @ + 1]
    /\ IF Instances(j) >= max_instances
       THEN /\ dropped' = [dropped EXCEPT ![j] = @ + 1]
            /\ pc' = pc
       ELSE /\ dropped' = dropped
            /\ pc' = [pc EXCEPT ![j] = "called"]
    /\ UNCHANGED <<env_run_on_startup, hhmm_vars, cfg_run_on_startup, main_pc, locked, waiters, woken, acquiredHow,
                   invoked, skipped, failures, escaped>>
    /\ UNCHANGED <<fetch_vars, run_vars, parser_vars>>

\* mutants of SkipsBusy: the wait flag inverted; the flag ignored
SkipsBusy_flagInverted(isLocked, wait) == isLocked /\ wait
SkipsBusy_flagIgnored(isLocked, wait) == isLocked

\* if self._lock.locked() and not wait: skip
SkipsBusy(isLocked, wait) == isLocked /\ ~wait

\* mutant of LockIsFree: the body is entered without looking at the lock state
LockIsFree_notLooked(isLocked, queue) == queue = <<>>

\* asyncio.Lock.acquire's fast path: not locked and no waiter that is not cancelled
LockIsFree(isLocked, queue) == ~isLocked /\ queue = <<>>

\* The first step of a _guarded call, up to its first suspension: skip, or take
\* the free lock and start the body, or suspend in acquire().
GuardedEnter(t) ==
    /\ pc[t] = "called"
    /\ IF SkipsBusy(locked, WaitFlag(t))
       THEN /\ skipped' = [skipped EXCEPT ![t] = @ + 1]
            /\ pc' = [pc EXCEPT ![t] = "idle"]
            /\ UNCHANGED <<locked, waiters, invoked, acquiredHow>>
       ELSE IF LockIsFree(locked, waiters)
       THEN /\ locked' = TRUE
            /\ invoked' = [invoked EXCEPT ![t] = @ + 1]
            /\ acquiredHow' = [acquiredHow EXCEPT ![t] = "fast"]
            /\ pc' = [pc EXCEPT ![t] = "running"]
            /\ UNCHANGED <<waiters, skipped>>
       ELSE /\ waiters' = Append(waiters, t)
            /\ pc' = [pc EXCEPT ![t] = "waiting"]
            /\ UNCHANGED <<locked, invoked, skipped, acquiredHow>>
    /\ UNCHANGED <<env_run_on_startup, hhmm_vars, cfg_run_on_startup, main_pc, woken, fired, dropped, failures, escaped>>
    /\ UNCHANGED <<fetch_vars, run_vars, parser_vars>>

Without(queue, t) == SelectSeq(queue, LAMBDA x : x # t)

\* A waiter whose future was resolved resumes in acquire(): it leaves the queue,
\* sets _locked and the body starts.
Resume(t) ==
    /\ pc[t] = "waiting"
    /\ t \in woken
    /\ waiters' = Without(waiters, t)
    /\ woken' = woken \ {t}
    /\ locked' = TRUE
    /\ invoked' = [invoked EXCEPT ![t] = @ + 1]
    /\ acquiredHow' = [acquiredHow EXCEPT ![t] = "queued"]
    /\ pc' = [pc EXCEPT ![t] = "running"]
    /\ UNCHANGED <<env_run_on_startup, hhmm_vars, cfg_run_on_startup, main_pc, fired, dropped, skipped, failures, escaped>>
    /\ UNCHANGED <<fetch_vars, run_vars, parser_vars>>

\* mutant of Caught: no except clause
Caught_nothing(outcome) == FALSE

\* except Exception as ex: log.exception(...)
Caught(outcome) == outcome = "Exception"

\* mutant of ReleasesOn: release() written after the body instead of in a
\* context manager, so reached only when the body returns
ReleasesOn_successOnly(outcome) == outcome = "ok"

\* async with self._lock: __aexit__ releases whatever the body ended with
ReleasesOn(outcome) == TRUE

\* asyncio.Lock._wake_up_first: resolve the future of the first waiter
WakeUpFirst(queue) == IF queue = <<>> THEN {} ELSE {Head(queue)}

\* The body ends; except/finally run, the lock is released and the call is over.
BodyEnd(t, outcome) ==
    /\ pc[t] = "running"
    /\ failures' = IF Caught(outcome) THEN failures + 1 ELSE failures
    /\ escaped' = IF outcome = "ok" \/ Caught(outcome) THEN escaped
                  ELSE escaped \cup {outcome}
    /\ IF ReleasesOn(outcome)
       THEN /\ locked' = FALSE
            /\ woken' = WakeUpFirst(waiters)
       ELSE UNCHANGED <<locked, woken>>
    /\ pc' = [pc EXCEPT ![t] = "idle"]
    /\ UNCHANGED <<env_run_on_startup, hhmm_vars, cfg_run_on_startup, main_pc, waiters, acquiredHow, fired, dropped,
                   invoked, skipped>>
    /\ UNCHANGED <<fetch_vars, run_vars, parser_vars>>

Next ==
    \/ StartAndRunForever
    \/ \E j \in CronJobs : CronFire(j)
    \/ \E t \in Tasks : GuardedEnter(t)
    \/ \E t \in Tasks : Resume(t)
    \/ \E t \in Tasks : \E o \in Outcomes(t) : BodyEnd(t, o)

Spec == Init /\ [][Next]_vars

\* The event loop runs every ready task, and the holder's body terminates.
FairSpec ==
    /\ Spec
    /\ WF_vars(\E t \in Tasks : GuardedEnter(t))
    /\ WF_vars(\E t \in Tasks : Resume(t))
    /\ WF_vars(\E t \in Tasks : \E o \in Outcomes(t) : BodyEnd(t, o))

----------------------------------------------------------------------------
(* Claims about the scheduler guard *)

Running == {t \in Tasks : pc[t] = "running"}

\* a submitted call of job t that has not yet started its body
Pending(t) == IF pc[t] \in {"called", "waiting"} THEN 1 ELSE 0

\* C1: in every reachable state at most one guarded job body (run_scrape or
\* run_dump) is executing, whatever the interleaving of cron scrape firings, cron
\* dump firings and the startup scrape task.
C1_MutualExclusion == Cardinality(Running) <= 1

\* C1 witness: one job body is executing while another call is suspended on the lock.
C1_Witness == \E t, u \in Tasks : pc[t] = "running" /\ pc[u] = "waiting"

\* C2: a scrape call (_scrape_job, wait=False) that takes its first step while the
\* lock is held returns at once: one more skip is logged, the scrape body is not
\* invoked and nothing is queued on the lock.
C2_ScrapeSkip ==
    [][\A t \in {"scrape", "startup"} :
          (pc[t] = "called" /\ locked /\ pc'[t] # "called")
              => /\ pc'[t] = "idle"
                 /\ skipped'[t] = skipped[t] + 1
                 /\ invoked' = invoked
                 /\ waiters' = waiters
                 /\ locked' = locked]_vars

\* C2 witness: a cron scrape firing was skipped while the dump held the lock.
C2_Witness == skipped["scrape"] > 0 /\ pc["dump"] = "running"

\* C3 (original): every firing of the backup trigger is waiting to run or has
\* invoked the backup task; none is dropped or skipped, also not one that arrives
\* while an earlier backup firing is still waiting or running.
C3_EveryBackupFiringRuns == fired["dump"] = invoked["dump"] + Pending("dump")

\* C3 (amended): every backup firing that the scheduler submits (the call of
\* _dump_job) is never skipped by _guarded and invokes the backup task exactly
\* once; one that finds the lock held waits and starts only once the lock is
\* released, and, the holder terminating, it does start. A firing that arrives
\* while an earlier backup instance is still waiting or running is dropped by the
\* scheduler (max_instances=1).
C3_SubmittedBackupRunsOnce ==
    /\ [](/\ skipped["dump"] = 0
          /\ fired["dump"] - dropped["dump"] = invoked["dump"] + Pending("dump"))
    /\ [][(pc["dump"] = "waiting" /\ pc'["dump"] # "waiting")
             => (~locked /\ pc'["dump"] = "running"
                 /\ invoked'["dump"] = invoked["dump"] + 1)]_vars
    /\ (pc["dump"] \in {"called", "waiting"} ~> pc["dump"] = "running")

\* C3 witness: a backup firing waited on the held lock and is now running.
C3_Witness == pc["dump"] = "running" /\ acquiredHow["dump"] = "queued"

\* C4: the lock is held only on behalf of a call whose body is executing: once a
\* call of _guarded has returned or raised (success, failure or skip) it holds
\* nothing, and with no call in progress the lock can be acquired.
C4_GuaranteedRelease ==
    /\ locked => Running # {}
    /\ (\A t \in Tasks : pc[t] \in {"idle", "called"}) => LockIsFree(locked, waiters)

\* C4 witness: calls have ended by a caught failure, by an escaping exception and
\* by a skip, and the lock is free.
C4_Witness ==
    /\ failures > 0
    /\ escaped # {}
    /\ \E t \in Tasks : skipped[t] > 0
    /\ ~locked

\* C5: no Exception raised by a job body (the RuntimeError of a failed pg_dump
\* included) leaves _guarded, and after a failure a submitted backup firing still
\* gets to run.
C5_FailureContained ==
    /\ []("Exception" \notin escaped)
    /\ ((failures > 0 /\ pc["dump"] = "called") ~> pc["dump"] = "running")

\* C5 witness: after a logged failure a scrape body is executing again and the
\* backup task has run.
C5_Witness == failures > 0 /\ pc["scrape"] = "running" /\ invoked["dump"] > 0

----------------------------------------------------------------------------
(* Fetch layer: Scraper._fetch *)

\* the response statuses the model draws: 200, the retryable ones and others
Statuses == {200, 204, 403, 404, 429, 500, 502, 503, 504}

\* what session.get / resp.read can raise: aiohttp.ClientError,
\* asyncio.TimeoutError, or an exception of another class
Errors == {"ClientError", "TimeoutError", "OtherError"}

\* mutant of IsRetryableStatus: 404 taken for a retryable status
IsRetryableStatus_with404(status) == status \in {404, 429, 500, 502, 503, 504}

\* if status in (429, 500, 502, 503, 504)
IsRetryableStatus(status) == status \in {429, 500, 502, 503, 504}

\* mutant of IsCaughtInFetch: the except clause names aiohttp.ClientError only
IsCaughtInFetch_clientOnly(err) == err = "ClientError"

\* except (aiohttp.ClientError, asyncio.TimeoutError)
IsCaughtInFetch(err) == err \in {"ClientError", "TimeoutError"}

Min(a, b) == IF a < b THEN a ELSE b

\* mutant of NextBackoff: the backoff is never doubled
NextBackoff_constant(b) == Min(b, 20)

\* backoff = min(backoff * 2, 20)
NextBackoff(b) == Min(b * 2, 20)

InitFetch ==
    /\ max_retries \in 0..MaxRetriesBound
    /\ f_pc = "idle"
    /\ attempt = 0
    /\ backoff = 0
    /\ attempts = 0
    /\ delays = <<>>
    /\ last_status = 0
    /\ last_error = "none"
    /\ only503 = TRUE
    /\ onlyTransport = TRUE
    /\ f_result = "pending"
    /\ f_raised = "none"
    /\ sem_held = 0
    /\ max_concurrency \in 1..MaxConcurrencyBound
    /\ InitPoolIdle

InitF == InitSched /\ env_run_on_startup = "unset" /\ InitFetch /\ InitRunIdle /\ InitParserIdle

\* _fetch is called: backoff = 1.0 and the loop starts at attempt 1
FetchCall ==
    /\ f_pc = "idle"
    /\ backoff' = 1
    /\ attempt' = 1
    /\ f_pc' = "loop"
    /\ UNCHANGED <<max_retries, attempts, delays, last_status, last_error, only503, onlyTransport,
                   f_result, f_raised, sem_held, max_concurrency, pool_vars>>
    /\ UNCHANGED <<sched_vars, run_vars, parser_vars>>

\* the head of for attempt in range(1, MAX_RETRIES + 1): either the range is
\* exhausted and _fetch returns None, or a permit is taken and the GET is sent
FetchLoop ==
    /\ f_pc = "loop"
    /\ IF attempt > max_retries
       THEN /\ f_pc' = "done"
            /\ f_result' = "None"
            /\ UNCHANGED <<attempts, sem_held>>
       ELSE /\ sem_held < max_concurrency
            /\ f_pc' = "request"
            /\ attempts' = attempts + 1
            /\ sem_held' = sem_held + 1
            /\ UNCHANGED f_result
    /\ UNCHANGED <<max_retries, attempt, backoff, delays, last_status, last_error, only503,
                   onlyTransport, f_raised, max_concurrency, pool_vars>>
    /\ UNCHANGED <<sched_vars, run_vars, parser_vars>>

\* the response has been read (status = resp.status; raw = await resp.read());
\* both context managers exit and the status is classified
FetchResponse(status) ==
    /\ f_pc = "request"
    /\ sem_held' = sem_held - 1
    /\ last_status' = status
    /\ last_error' = "none"
    /\ only503' = (only503 /\ status = 503)
    /\ onlyTransport' = FALSE
    /\ IF IsRetryableStatus(status)
       THEN /\ delays' = Append(delays, backoff)
            /\ f_pc' = "sleeping"
            /\ UNCHANGED f_result
       ELSE IF status # 200
       THEN /\ f_pc' = "done"
            /\ f_result' = "None"
            /\ UNCHANGED delays
       ELSE /\ f_pc' = "done"
            /\ f_result' = "body"
            /\ UNCHANGED delays
    /\ UNCHANGED <<max_retries, attempt, backoff, attempts, f_raised, max_concurrency, pool_vars>>
    /\ UNCHANGED <<sched_vars, run_vars, parser_vars>>

\* the request raises; the permit is given back by async with; the exception is
\* caught by the except clause (which sleeps) or leaves _fetch
FetchError(err) ==
    /\ f_pc = "request"
    /\ sem_held' = sem_held - 1
    /\ last_status' = 0
    /\ last_error' = err
    /\ only503' = FALSE
    /\ onlyTransport' = (onlyTransport /\ err \in {"ClientError", "TimeoutError"})
    /\ IF IsCaughtInFetch(err)
       THEN /\ delays' = Append(delays, backoff)
            /\ f_pc' = "sleeping"
            /\ UNCHANGED f_raised
       ELSE /\ f_pc' = "done"
            /\ f_raised' = err
            /\ UNCHANGED delays
    /\ UNCHANGED <<max_retries, attempt, backoff, attempts, f_result, max_concurrency, pool_vars>>
    /\ UNCHANGED <<sched_vars, run_vars, parser_vars>>

\* asyncio.sleep(backoff) returns: the backoff is doubled up to the ceiling and
\* the loop goes to its next attempt
FetchWake ==
    /\ f_pc = "sleeping"
    /\ backoff' = NextBackoff(backoff)
    /\ attempt' = attempt + 1
    /\ f_pc' = "loop"
    /\ UNCHANGED <<max_retries, attempts, delays, last_status, last_error, only503, onlyTransport,
                   f_result, f_raised, sem_held, max_concurrency, pool_vars>>
    /\ UNCHANGED <<sched_vars, run_vars, parser_vars>>

NextFetch ==
    \/ FetchCall
    \/ FetchLoop
    \/ \E status \in Statuses : FetchResponse(status)
    \/ \E err \in Errors : FetchError(err)
    \/ FetchWake

SpecFetch == InitF /\ [][NextFetch]_vars

----------------------------------------------------------------------------
(* Claims about the fetch layer *)

\* the sleeps that were followed by another attempt
InterAttemptDelays == SubSeq(delays, 1, attempts - 1)

StrictlyIncreasing(seq) == \A i \in 1..(Len(seq) - 1) : seq[i] < seq[i + 1]

FetchDone == f_pc = "done"

\* C6 (original): when every response has status 503, _fetch makes exactly
\* MAX_RETRIES attempts, the delays between consecutive attempts are strictly
\* increasing and the call returns None, for every configured MAX_RETRIES.
C6_RetryExhaustionStrict ==
    (FetchDone /\ only503)
        => /\ attempts = max_retries
           /\ StrictlyIncreasing(InterAttemptDelays)
           /\ f_result = "None"

\* C6 (amended): when every response has status 503, _fetch makes exactly
\* MAX_RETRIES attempts and returns None; the delays between consecutive attempts
\* start at 1 s and double up to the 20 s ceiling, so they never decrease and are
\* strictly increasing only while below the ceiling (throughout for MAX_RETRIES
\* up to 7).
C6_RetryExhaustionCapped ==
    (FetchDone /\ only503)
        => /\ attempts = max_retries
           /\ f_result = "None"
           /\ f_raised = "none"
           /\ Len(delays) = max_retries
           /\ \A i \in 1..Len(InterAttemptDelays) :
                 InterAttemptDelays[i] = IF i = 1 THEN 1
                                         ELSE Min(2 * InterAttemptDelays[i - 1], 20)
           /\ max_retries <= 7 => StrictlyIncreasing(InterAttemptDelays)

\* C6 witness: a call with eight attempts, all answered 503, has returned None
\* after the delay between attempts reached the 20 s ceiling.
C6_Witness ==
    /\ FetchDone /\ only503 /\ max_retries = 8 /\ attempts = 8 /\ f_result = "None"
    /\ InterAttemptDelays[5] = 16 /\ InterAttemptDelays[6] = 20

\* C7: a response with status 200 ends the call with the body; a status outside
\* {200, 429, 500, 502, 503, 504} ends it with None, with no sleep and no further
\* attempt; an attempt after the first is made only when the previous one gave a
\* status in {429, 500, 502, 503, 504} or a transport error.
C7_ResponseClassification ==
    [][/\ (f_pc = "request" /\ last_status' = 200)
            => (f_pc' = "done" /\ f_result' = "body" /\ delays' = delays)
       /\ (f_pc = "request" /\ last_status' \in Statuses \ {200, 429, 500, 502, 503, 504})
            => (f_pc' = "done" /\ f_result' = "None" /\ delays' = delays)
       /\ (attempts' > attempts /\ attempts > 0)
            => \/ last_status \in {429, 500, 502, 503, 504}
               \/ last_error \in {"ClientError", "TimeoutError"}
       /\ f_pc = "done"
            => (f_pc' = "done" /\ attempts' = attempts /\ delays' = delays)]_vars

\* C7 witness: the second attempt got 404 after one retry and the call returned
\* None with no second sleep.
C7_Witness ==
    FetchDone /\ last_status = 404 /\ attempts = 2 /\ Len(delays) = 1 /\ f_result = "None"

\* C8: an aiohttp.ClientError or asyncio.TimeoutError never leaves _fetch; such an
\* attempt ends the call only by exhausting the attempts, and a call whose every
\* attempt failed that way returns None.
C8_TransportErrorsContained ==
    /\ f_raised \notin {"ClientError", "TimeoutError"}
    /\ (FetchDone /\ last_error \in {"ClientError", "TimeoutError"})
           => (attempts = max_retries /\ f_result = "None" /\ f_raised = "none")
    /\ (FetchDone /\ onlyTransport /\ f_raised = "none") => f_result = "None"

\* C8 witness: three attempts, each a transport error or timeout, the last a
\* timeout, and the call returned None.
C8_Witness ==
    /\ FetchDone /\ onlyTransport /\ last_error = "TimeoutError"
    /\ max_retries = 3 /\ attempts = 3 /\ f_result = "None"

----------------------------------------------------------------------------
(* Scrape run: Scraper.run and Scraper._process_single_listing *)

AD_PER_PAGE == 20

\* BATCH_SIZE of config.py (its default); no code reads it
BATCH_SIZE == 100

\* values of window.ria.server.resultsCount the model draws
AdCounts == {0, 1, 20, 21, 40, 41}

\* math.ceil(a / b)
CeilDiv(a, b) == (a + b - 1) \div b

\* get_total_pages: 1 when the first page cannot be fetched or holds no count,
\* else the count divided by AD_PER_PAGE, rounded up
TotalPages(found, ads_count) ==
    IF found = "match" THEN CeilDiv(ads_count, AD_PER_PAGE) ELSE 1

\* mutant of PagesToScan: the page limit is not applied
PagesToScan_noLimit(total, limit) == total

\* pages_to_scan of Scraper.run
PagesToScan(total, limit) == IF limit > 0 THEN Min(total, limit) ELSE total

InitRun ==
    /\ max_pages \in 0..MaxPagesBound
    /\ r_pc = "start"
    /\ total_pages = 0
    /\ pages_to_scan = 0
    /\ page_num = 0
    /\ tasks = [u \in {} |-> "done"]
    /\ handed = [u \in Urls |-> 0]
    /\ finished = 0
    /\ validated = 0
    /\ sink_calls = <<>>
    /\ db \in SUBSET Urls
    /\ inserting = {}
    /\ ev = "none"

InitR ==
    /\ InitSched /\ env_run_on_startup = "unset"
    /\ InitFetch /\ max_retries = 0 /\ max_concurrency = MaxConcurrencyBound
    /\ InitRun
    /\ InitParserIdle

\* run() up to the page loop: total_pages = await self.get_total_pages(session),
\* then pages_to_scan
GetTotalPages(found, ads_count) ==
    /\ r_pc = "start"
    /\ total_pages' = TotalPages(found, ads_count)
    /\ pages_to_scan' = PagesToScan(TotalPages(found, ads_count), max_pages)
    /\ page_num' = 1
    /\ r_pc' = "loop"
    /\ UNCHANGED <<max_pages, tasks, handed, finished, validated, sink_calls, db, inserting, ev>>
    /\ UNCHANGED <<sched_vars, fetch_vars, parser_vars>>

\* the head of the page loop: the range is exhausted and run() returns, or the
\* search page is requested
PageLoop ==
    /\ r_pc = "loop"
    /\ r_pc' = IF page_num > pages_to_scan THEN "done" ELSE "search"
    /\ UNCHANGED <<max_pages, total_pages, pages_to_scan, page_num, tasks, handed,
                   finished, validated, sink_calls, db, inserting, ev>>
    /\ UNCHANGED <<sched_vars, fetch_vars, parser_vars>>

\* mutant of NewUrls: the urls already stored are not filtered out
NewUrls_unfiltered(all_urls, existing) == all_urls

\* new_urls = [url for url in all_urls if url not in existing]
NewUrls(all_urls, existing) == all_urls \ existing

\* db.existing_urls(urls): the urls among them that car_listings holds
existing_urls(urls) == urls \cap db

\* mutant of OnEmptyPage: a page without urls ends the page loop
OnEmptyPage_break == "break"

\* if not all_urls: continue
OnEmptyPage == "continue"

\* fetch_search_page returned. Without html the page is passed over. Otherwise the
\* urls are parsed, db.existing_urls is asked (it can raise, which ends run()),
\* a page without urls is passed over, and one task per new url is created and
\* gathered.
SearchPage(html, all_urls, db_ok) ==
    /\ r_pc = "search"
    /\ IF html = "None"
       THEN /\ page_num' = page_num + 1
            /\ r_pc' = "loop"
            /\ ev' = "page_nohtml"
            /\ UNCHANGED <<tasks, handed>>
       ELSE IF all_urls = {}
       THEN /\ page_num' = page_num + 1
            /\ r_pc' = IF OnEmptyPage = "continue" THEN "loop" ELSE "done"
            /\ ev' = "page_empty"
            /\ UNCHANGED <<tasks, handed>>
       ELSE IF ~db_ok
       THEN /\ r_pc' = "failed"
            /\ ev' = "page_db_error"
            /\ UNCHANGED <<page_num, tasks, handed>>
       ELSE LET new_urls == NewUrls(all_urls, existing_urls(all_urls)) IN
            /\ tasks' = [u \in new_urls |-> "fetch"]
            /\ handed' = [u \in Urls |-> IF u \in new_urls THEN handed[u] + 1
                                         ELSE handed[u]]
            /\ r_pc' = "gather"
            /\ ev' = "page_tasks"
            /\ UNCHANGED page_num
    /\ UNCHANGED <<max_pages, total_pages, pages_to_scan, finished, validated,
                   sink_calls, db, inserting>>
    /\ UNCHANGED <<sched_vars, fetch_vars, parser_vars>>

\* what fetch_listing_html and the synchronous part of parse_listing_page give:
\* no html, a removed listing, an exception, a page without the three ids (no
\* lookup is made and the listing ends without a phone number), or a page with
\* them (the lookup POST is sent)
FetchedKinds == {"None", "removed", "raise", "no_ids", "ids"}

\* mutant of ListingCatches: _process_single_listing has no except clause
ListingCatches_nothing(kind) == FALSE

\* except Exception as ex: logging.exception(...) around the whole listing
ListingCatches(kind) == kind \in {"raise", "no_image", "insert_raise"}

\* the event of a fetched listing whose task ends or goes on to the lookup
FetchedEvent(kind) ==
    CASE kind = "None" -> "nohtml"
      [] kind = "ids" -> "lookup_sent"
      [] OTHER -> kind

\* mutant of LoopBlocked: insert_batch gives the event loop back while it runs
LoopBlocked_never == FALSE

\* insert_batch is a plain def without await: while it runs, the event loop runs
\* nothing else
LoopBlocked == inserting # {}

ListingFetched(u, kind) ==
    /\ r_pc = "gather"
    /\ ~LoopBlocked
    /\ u \in DOMAIN tasks
    /\ tasks[u] = "fetch"
    /\ ev' = FetchedEvent(kind)
    /\ IF kind = "ids"
       THEN /\ tasks' = [tasks EXCEPT ![u] = "lookup"]
            /\ UNCHANGED <<finished, r_pc>>
       ELSE /\ tasks' = [tasks EXCEPT ![u] = "done"]
            /\ finished' = finished + 1
            /\ r_pc' = IF kind = "raise" /\ ~ListingCatches(kind) THEN "failed" ELSE r_pc
    /\ UNCHANGED <<max_pages, total_pages, pages_to_scan, page_num, handed,
                   validated, sink_calls, db, inserting>>
    /\ UNCHANGED <<sched_vars, fetch_vars, parser_vars>>

\* mutant of Batch: the list given to insert_batch is left empty
Batch_empty(u) == <<>>

\* db.insert_batch([car_data]): the list holds the one record of this listing
Batch(u) == <<u>>

\* mutant of Persisted: a record without a phone number is inserted too
Persisted_phoneOptional(has_phone, has_image) == has_image

\* a listing reaches db.insert_batch when CarListing(...) did not raise (there is
\* an image url) and "if not car_data.phone_number: ... return" did not skip it
Persisted(has_phone, has_image) == has_image /\ has_phone

\* what happens to a listing once the lookup returned: CarListing(...) raised for
\* want of an image url, the listing was skipped for want of a phone number, or
\* insert_batch is called
LookupEvent(has_phone, has_image) ==
    IF ~has_image THEN "no_image"
    ELSE IF ~has_phone THEN "no_phone"
    ELSE "insert_call"

\* The lookup returned. CarListing(...) raises without an image url; a listing
\* without a phone number is skipped; otherwise db.insert_batch([car_data]) is
\* called at once.
LookupDone(u, has_phone, has_image) ==
    /\ r_pc = "gather"
    /\ ~LoopBlocked
    /\ u \in DOMAIN tasks
    /\ tasks[u] = "lookup"
    /\ ev' = LookupEvent(has_phone, has_image)
    /\ IF Persisted(has_phone, has_image)
       THEN /\ tasks' = [tasks EXCEPT ![u] = "insert"]
            /\ validated' = validated + 1
            /\ sink_calls' = Append(sink_calls, Len(Batch(u)))
            /\ inserting' = inserting \cup {u}
            /\ UNCHANGED <<finished, r_pc>>
       ELSE /\ tasks' = [tasks EXCEPT ![u] = "done"]
            /\ finished' = finished + 1
            /\ r_pc' = IF ~has_image /\ ~ListingCatches("no_image") THEN "failed" ELSE r_pc
            /\ UNCHANGED <<validated, sink_calls, inserting>>
    /\ UNCHANGED <<max_pages, total_pages, pages_to_scan, page_num, handed, db>>
    /\ UNCHANGED <<sched_vars, fetch_vars, parser_vars>>

\* insert_batch returns: the rows are stored, or it raised (caught in
\* _process_single_listing); the listing's task ends either way
InsertReturn(u, insert_ok) ==
    /\ r_pc = "gather"
    /\ u \in inserting
    /\ inserting' = inserting \ {u}
    /\ tasks' = [tasks EXCEPT ![u] = "done"]
    /\ finished' = finished + 1
    /\ db' = IF insert_ok THEN db \cup {Batch(u)[i] : i \in 1..Len(Batch(u))} ELSE db
    /\ ev' = IF insert_ok THEN "saved" ELSE "insert_raise"
    /\ r_pc' = IF ~insert_ok /\ ~ListingCatches("insert_raise") THEN "failed" ELSE r_pc
    /\ UNCHANGED <<max_pages, total_pages, pages_to_scan, page_num, handed,
                   validated, sink_calls>>
    /\ UNCHANGED <<sched_vars, fetch_vars, parser_vars>>

\* mutant of GatherReturns: the tasks are created but not awaited
GatherReturns_notAwaited(ts) == TRUE

\* mutant of GatherReturns: the await returns when the first task has ended
GatherReturns_firstDone(ts) == DOMAIN ts = {} \/ \E u \in DOMAIN ts : ts[u] = "done"

\* await asyncio.gather(*tasks) returns when every task has ended
GatherReturns(ts) == \A u \in DOMAIN ts : ts[u] = "done"

\* gather returned: the loop goes to the next page
GatherDone ==
    /\ r_pc = "gather"
    /\ ~LoopBlocked
    /\ GatherReturns(tasks)
    /\ page_num' = page_num + 1
    /\ r_pc' = "loop"
    /\ UNCHANGED <<max_pages, total_pages, pages_to_scan, tasks, handed, finished,
                   validated, sink_calls, db, inserting, ev>>
    /\ UNCHANGED <<sched_vars, fetch_vars, parser_vars>>

NextRun ==
    \/ \E found \in {"None", "nomatch", "match"} : \E ads_count \in AdCounts :
          GetTotalPages(found, ads_count)
    \/ PageLoop
    \/ \E html \in {"None", "html"} : \E all_urls \in SUBSET Urls : \E db_ok \in BOOLEAN :
          SearchPage(html, all_urls, db_ok)
    \/ \E u \in Urls : \E kind \in FetchedKinds : ListingFetched(u, kind)
    \/ \E u \in Urls : \E has_phone, has_image \in BOOLEAN :
          LookupDone(u, has_phone, has_image)
    \/ \E u \in Urls : \E insert_ok \in BOOLEAN : InsertReturn(u, insert_ok)
    \/ GatherDone

SpecRun == InitR /\ [][NextRun]_vars

----------------------------------------------------------------------------
(* Claims about the scrape run *)

RECURSIVE FlushSizes(_, _)
\* the flush sizes of a collector with batch size b for n records: b, b, ..., rest
FlushSizes(n, b) ==
    IF n = 0 THEN <<>>
    ELSE IF n <= b THEN <<n>>
    ELSE <<b>> \o FlushSizes(n - b, b)

InProgress == {u \in DOMAIN tasks : tasks[u] # "done"}

RECURSIVE SumHanded(_)
\* listing tasks created so far, over the urls of S
SumHanded(S) ==
    IF S = {} THEN 0
    ELSE LET u == CHOOSE x \in S : TRUE IN handed[u] + SumHanded(S \ {u})

ListingFailures == {"nohtml", "raise", "no_ids", "no_image", "no_phone", "insert_raise"}

\* a step in which the task of one listing url ends
TaskEnds == r_pc = "gather" /\ finished' = finished + 1

\* the tasks other than the one that ended are where they were
OthersUntouched ==
    \E u \in DOMAIN tasks :
        /\ tasks[u] # "done" /\ tasks'[u] = "done"
        /\ \A v \in DOMAIN tasks \ {u} : tasks'[v] = tasks[v]

\* C11: a failure while one listing url is processed (no html, an exception of
\* parsing or validation, a failed lookup, an insert that raises) ends that url's
\* task only: the run stays in the gather of the page, the page counter and every
\* other task of the page are untouched, the run is never ended by it (only
\* db.existing_urls raising ends a run early), and a run that ends has visited
\* every page.
C11_FailureIsolated ==
    /\ [][(TaskEnds /\ ev' \in ListingFailures)
            => /\ r_pc' = "gather"
               /\ page_num' = page_num /\ pages_to_scan' = pages_to_scan
               /\ OthersUntouched]_vars
    /\ [](r_pc = "failed" => ev = "page_db_error")
    /\ [](r_pc = "done" => page_num = pages_to_scan + 1)

\* C11 witness: the second page is being fetched after the last listing event of
\* the first page was an exception raised while a listing was processed.
C11_Witness == r_pc = "search" /\ page_num = 2 /\ ev = "raise"

\* C12 (original): across all pages of one run no listing url is handed to listing
\* processing more than once.
C12_NeverHandedTwice == \A u \in Urls : handed[u] <= 1

\* C12 (amended): there is no seen-set. A url is handed to listing processing at
\* most once per page, and only while car_listings does not hold it; a url whose
\* listing was skipped or failed, and so was not stored, is handed again when a
\* later page of the same run returns it.
C12_HandedOnlyWhileNotStored ==
    [][\A u \in Urls :
          handed'[u] # handed[u] => (u \notin db /\ handed'[u] = handed[u] + 1)]_vars

\* C12 witness: a url was handed on two pages and stored the second time.
C12_Witness == \E u \in Urls : handed[u] = 2 /\ u \in db /\ ev = "saved"

C14_PageLimit ==
    /\ r_pc \in {"search", "gather"}
         => /\ page_num >= 1 /\ page_num <= total_pages
            /\ max_pages > 0 => page_num <= max_pages
    /\ (r_pc # "start" /\ max_pages = 0) => pages_to_scan = total_pages
    /\ (r_pc = "done" /\ max_pages = 0) => page_num = total_pages + 1
    /\ (r_pc = "done" /\ max_pages > 0) => page_num <= max_pages + 1

\* C14 witness: a run limited to one page out of two returned after page 1.
C14_Witness == r_pc = "done" /\ max_pages = 1 /\ total_pages = 2 /\ page_num = 2

\* a step of a listing task after which the listing has no phone number: the
\* lookup failed, or the page lacked an identifier and no lookup was made
LookupFailed == r_pc = "gather" /\ tasks' # tasks /\ ev' \in {"no_phone", "no_ids"}

C19_OneInsertAtATime ==
    /\ Cardinality(inserting) <= 1
    /\ inserting # {} => r_pc = "gather"
    /\ \A u \in inserting : u \in DOMAIN tasks /\ tasks[u] = "insert"

\* C19 witness: an insert is in progress while another listing task of the page
\* has its lookup answer outstanding.
C19_Witness ==
    \E u \in inserting : \E v \in DOMAIN tasks : v # u /\ tasks[v] = "lookup"

----------------------------------------------------------------------------
(* parser.py: _find_json_end *)

\* the characters that matter to the scan, and one that does not
Alphabet == {"{", "}", "\"", "\\", "a"}

Texts == UNION {[1..n -> Alphabet] : n \in 0..MaxTextLen}

\* text[idx] of Python, idx counted from 0
CharAt(t, idx) == t[idx + 1]

\* mutant of IsEscape: the backslash is an ordinary character of a string
IsEscape_never(ch) == FALSE

\* elif ch == "\\": escape = True
IsEscape(ch) == ch = "\\"

RECURSIVE ScanFrom(_, _, _, _, _)
\* the for loop of _find_json_end from idx on, with its three locals
ScanFrom(t, idx, depth, in_string, escape) ==
    IF idx >= Len(t) THEN None
    ELSE LET ch == CharAt(t, idx) IN
         IF in_string
         THEN IF escape THEN ScanFrom(t, idx + 1, depth, TRUE, FALSE)
              ELSE IF IsEscape(ch) THEN ScanFrom(t, idx + 1, depth, TRUE, TRUE)
              ELSE IF ch = "\"" THEN ScanFrom(t, idx + 1, depth, FALSE, escape)
              ELSE ScanFrom(t, idx + 1, depth, TRUE, escape)
         ELSE IF ch = "\"" THEN ScanFrom(t, idx + 1, depth, TRUE, escape)
         ELSE IF ch = "{" THEN ScanFrom(t, idx + 1, depth + 1, FALSE, escape)
         ELSE IF ch = "}"
              THEN IF depth - 1 = 0 THEN idx + 1
                   ELSE ScanFrom(t, idx + 1, depth - 1, FALSE, escape)
         ELSE ScanFrom(t, idx + 1, depth, FALSE, escape)

find_json_end(t, from) == ScanFrom(t, from, 0, FALSE, FALSE)

\* the call as extract_pinia_payload makes it: start = html.find("{", idx), so the
\* start index is that of a "{"
InitScan ==
    /\ text \in Texts
    /\ start \in {i \in 0..MaxTextLen - 1 : i < Len(text) /\ CharAt(text, i) = "{"}
    /\ json_end = None
    /\ s_pc = "ready"

InitS ==
    /\ InitSched /\ env_run_on_startup = "unset"
    /\ InitFetchIdle /\ InitRunIdle
    /\ InitScan /\ InitDeepIdle /\ InitParseIdle /\ InitLdIdle

FindJsonEnd ==
    /\ s_pc = "ready"
    /\ json_end' = find_json_end(text, start)
    /\ s_pc' = "done"
    /\ UNCHANGED <<text, start>>
    /\ UNCHANGED <<sched_vars, fetch_vars, run_vars, deep_vars, parse_vars, ld_vars>>

NextScan == FindJsonEnd

SpecScan == InitS /\ [][NextScan]_vars

----------------------------------------------------------------------------
(* Claims about _find_json_end *)

\* the number of backslashes that stand immediately before index j, not counting
\* any before index lo
BackslashRun(t, lo, j) ==
    CHOOSE k \in 0..(j - lo) :
        /\ \A m \in (j - k)..(j - 1) : CharAt(t, m) = "\\"
        /\ (k = j - lo \/ CharAt(t, j - k - 1) # "\\")

\* the index of the quote that closes the string literal opened at index open, or
\* Len(t) when the literal is not closed: the first quote after it that is not
\* preceded by an odd number of backslashes of the literal
LiteralClose(t, open) ==
    LET closers == {j \in (open + 1)..(Len(t) - 1) :
                       CharAt(t, j) = "\"" /\ BackslashRun(t, open + 1, j) % 2 = 0}
    IN IF closers = {} THEN Len(t)
       ELSE CHOOSE j \in closers : \A j2 \in closers : j <= j2

RECURSIVE LiteralChars(_, _)
\* the indices from index from on that lie inside a string literal, quotes included
LiteralChars(t, from) ==
    LET quotes == {j \in from..(Len(t) - 1) : CharAt(t, j) = "\""} IN
    IF quotes = {} THEN {}
    ELSE LET open == CHOOSE j \in quotes : \A j2 \in quotes : j <= j2
             close == LiteralClose(t, open)
         IN (open..close) \cup LiteralChars(t, close + 1)

\* the braces from index from up to index i that are outside string literals:
\* opening ones minus closing ones
Balance(t, from, i) ==
    LET lit == LiteralChars(t, from)
        outside(c) == {j \in from..i : j \notin lit /\ CharAt(t, j) = c}
    IN Cardinality(outside("{")) - Cardinality(outside("}"))

\* the indices of the closing braces outside string literals that bring the
\* nesting depth opened at index from back to zero
Closers(t, from) ==
    {i \in from..(Len(t) - 1) :
        /\ CharAt(t, i) = "}"
        /\ i \notin LiteralChars(t, from)
        /\ Balance(t, from, i) = 0}

\* C17: for a start index of a "{", _find_json_end returns the index just past the
\* "}" that closes that brace, nesting counted and every brace inside a double-quoted
\* string literal (backslash escapes respected) ignored; it returns None when there
\* is no such "}".
C17_BalancedBraceScan ==
    s_pc = "done" =>
        IF Closers(text, start) = {} THEN json_end = None
        ELSE /\ json_end - 1 \in Closers(text, start)
             /\ \A i \in Closers(text, start) : json_end - 1 <= i

\* C17 witness: a scan that went over a string literal holding an escaped quote and
\* a closing brace, and ended at the brace after the literal.
C17_Witness ==
    /\ s_pc = "done" /\ start = 0 /\ json_end = Len(text)
    /\ \E i, j \in 1..(Len(text) - 2) :
          /\ i < j /\ CharAt(text, i) = "\\" /\ CharAt(text, j) = "}"
          /\ {i, j} \subseteq LiteralChars(text, start)

----------------------------------------------------------------------------
(* parser.py: _deep_find *)

\* A structure of mappings, sequences and scalars is a tree of nodes 1..n with
\* node 1 the root: parent[i] < i, the children of a node are in insertion order
\* by their number, and the child of a mapping has a key.
NodeKinds == {"dict", "list", "leaf"}
Keys == {"a", "b"}

Parents(n) == {p \in [1..n -> 0..(n - 1)] : \A i \in 1..n : p[i] < i /\ (p[i] = 0 <=> i = 1)}

KindMaps(n, p) == {k \in [1..n -> NodeKinds] : \A i \in 2..n : k[p[i]] # "leaf"}

KeyMaps(n, p, k) ==
    {ky \in [1..n -> Keys \cup {"-"}] :
        /\ ky[1] = "-"
        /\ \A i \in 2..n : ky[i] \in Keys <=> k[p[i]] = "dict"
        /\ \A i, j \in 2..n : (i # j /\ p[i] = p[j] /\ ky[i] \in Keys) => ky[i] # ky[j]}

DatasOf(n) ==
    UNION {UNION {{[n |-> n, parent |-> p, kind |-> k, keyOf |-> ky] : ky \in KeyMaps(n, p, k)}
                  : k \in KindMaps(n, p)}
           : p \in Parents(n)}

Datas == UNION {DatasOf(n) : n \in 1..MaxNodes}

RECURSIVE ChildrenFrom(_, _, _)
\* data.items() of a mapping, or the items of a sequence, from child number i on
ChildrenFrom(d, node, i) ==
    IF i > d.n THEN <<>>
    ELSE (IF d.parent[i] = node THEN <<i>> ELSE <<>>) \o ChildrenFrom(d, node, i + 1)

\* mutant of YieldEntry: what lies inside the value is yielded before the value
YieldEntry_nestedFirst(own, nested) == nested \o own

\* if k == key: yield v, and then yield from _deep_find(v, key)
YieldEntry(own, nested) == own \o nested

RECURSIVE deep_find(_, _, _), deep_find_items(_, _, _, _)
\* _deep_find(data, key) for the value at node: a scalar yields nothing
deep_find(d, node, k) ==
    IF d.kind[node] = "leaf" THEN <<>>
    ELSE deep_find_items(d, node, ChildrenFrom(d, node, 2), k)

\* the for loop over the items cs of the mapping or sequence at node
deep_find_items(d, node, cs, k) ==
    IF cs = <<>> THEN <<>>
    ELSE LET c == Head(cs)
             own == IF d.kind[node] = "dict" /\ d.keyOf[c] = k THEN <<c>> ELSE <<>>
         IN YieldEntry(own, deep_find(d, c, k)) \o deep_find_items(d, node, Tail(cs), k)

InitDeep ==
    /\ data \in Datas
    /\ key \in Keys
    /\ yielded = <<>>
    /\ d_pc = "ready"

InitD ==
    /\ InitSched /\ env_run_on_startup = "unset"
    /\ InitFetchIdle /\ InitRunIdle
    /\ InitScanIdle /\ InitDeep /\ InitParseIdle /\ InitLdIdle

\* list(_deep_find(data, key))
DeepFind ==
    /\ d_pc = "ready"
    /\ yielded' = deep_find(data, 1, key)
    /\ d_pc' = "done"
    /\ UNCHANGED <<data, key>>
    /\ UNCHANGED <<sched_vars, fetch_vars, run_vars, scan_vars, parse_vars, ld_vars>>

NextDeep == DeepFind

SpecDeep == InitD /\ [][NextDeep]_vars

----------------------------------------------------------------------------
(* Claims about _deep_find *)

RECURSIVE Ancestors(_, _)
Ancestors(d, x) == IF x = 1 THEN {} ELSE {d.parent[x]} \cup Ancestors(d, d.parent[x])

Depth(d, x) == Cardinality(Ancestors(d, x))

\* the values stored under key k in some mapping of d
Matches(d, k) == {x \in 2..d.n : d.keyOf[x] = k}

\* of two nodes neither of which contains the other: the child of their deepest
\* common container through which x is reached
Branch(d, x, y) ==
    LET common == Ancestors(d, x) \cap Ancestors(d, y)
        lca == CHOOSE c \in common : \A c2 \in common : Depth(d, c2) <= Depth(d, c)
    IN CHOOSE b \in Ancestors(d, x) \cup {x} : d.parent[b] = lca

\* x comes before y in the traversal: x contains y, or x lies in an entry inserted
\* before the entry in which y lies
Before(d, x, y) ==
    \/ x \in Ancestors(d, y)
    \/ /\ x # y /\ y \notin Ancestors(d, x)
       /\ Branch(d, x, y) < Branch(d, y, x)

\* C18 (original): when the key occurs at two depths, the first value yielded is
\* the shallower one: no match lies at a lesser depth than the first value yielded.
C18_ShallowerFirst ==
    (d_pc = "done" /\ yielded # <<>>)
        => \A m \in Matches(data, key) : Depth(data, yielded[1]) <= Depth(data, m)

\* C18 (amended): _deep_find yields every value stored under the key exactly once,
\* in pre-order: a value before the matches inside it, and everything inside an
\* entry's value before the matches of the entries inserted after it, whatever the
\* depths.
C18_PreOrder ==
    d_pc = "done" =>
        /\ {yielded[i] : i \in 1..Len(yielded)} = Matches(data, key)
        /\ Len(yielded) = Cardinality(Matches(data, key))
        /\ \A i, j \in 1..Len(yielded) : i < j => Before(data, yielded[i], yielded[j])

\* C18 witness: the key was found at two depths, and the deeper value, which lies
\* in an entry inserted earlier, was yielded first.
C18_Witness ==
    /\ d_pc = "done" /\ Len(yielded) = 2
    /\ Depth(data, yielded[1]) > Depth(data, yielded[2])

----------------------------------------------------------------------------
(* parser.py: parse_listing; scraper.py: the identifiers of _get_phone_number *)

\* the kinds of value a field of the payload can hold: nothing (None or no such
\* key), "", a non-empty string, 0, a non-zero number, a non-empty mapping
ValKinds == {"absent", "empty_str", "str", "zero", "int", "dict"}
IdKinds == {"absent", "int", "str"}
IdNames == {"auto_id", "user_id", "phone_id"}

\* bool(value) of Python
Truthy(k) == k \in {"str", "int", "dict"}

\* a or b of Python
Or(a, b) == IF Truthy(a) THEN a ELSE b

\* the value has a strip method
IsStr(k) == k \in {"empty_str", "str"}

\* _first_str over the values found: the first non-empty string, else None
FirstStr(k) == IF k = "str" THEN "str" ELSE "absent"

\* pinia = extract_pinia_payload(html) or {}: without marker, brace or closing
\* brace, or with text that json.loads rejects, the payload is the empty mapping
HasPayload(pg) == pg.pinia = "ok"

\* a field of additional or ld_json, which are {} unless the payload's first
\* structures entry is a mapping (_as_dict)
RootField(pg, f) == IF HasPayload(pg) /\ pg.root = "mapping" THEN pg[f] ELSE "absent"

\* a value that _deep_find can reach anywhere in the payload
DeepField(pg, f) == IF HasPayload(pg) THEN pg[f] ELSE "absent"

\* the page texts: a field that the payload cannot hold is absent, and the page
\* has no meta description
Pages ==
    {pg \in [pinia : {"no_marker", "malformed", "ok"}, root : {"mapping", "other"},
             title : ValKinds, ld_name : {"absent", "str"}, title_html : {"empty_str", "str"},
             owner_name : ValKinds, phone_id : IdKinds, auto_id : IdKinds,
             auto_id_deep : {"absent", "str"}, user_id_deep : {"absent", "str"},
             owner_id : IdKinds] :
        /\ pg.pinia # "ok" => (pg.root = "mapping" /\ \A f \in {"phone_id", "auto_id_deep",
                                   "user_id_deep"} : pg[f] = "absent")
        /\ (pg.pinia # "ok" \/ pg.root = "other")
              => \A f \in {"title", "ld_name", "owner_name", "auto_id", "owner_id"} :
                    pg[f] = "absent"}

\* mutant of AllResolved: one identifier is enough for the metadata
AllResolved_any(auto_id, user_id, phone_id) ==
    Truthy(auto_id) \/ Truthy(user_id) \/ Truthy(phone_id)

\* if auto_id and user_id and phone_id:
AllResolved(auto_id, user_id, phone_id) ==
    Truthy(auto_id) /\ Truthy(user_id) /\ Truthy(phone_id)

\* parse_listing(html, url), as far as the title, the user name and the lookup
\* metadata go. title.strip() and username.strip() raise AttributeError when the
\* value is true and not a string.
parse_listing(pg) ==
    LET title == Or(Or(RootField(pg, "title"), RootField(pg, "ld_name")), pg.title_html)
        username == Or(RootField(pg, "owner_name"), "empty_str")
        phone_id == FirstStr(DeepField(pg, "phone_id"))
        auto_id == Or(RootField(pg, "auto_id"), FirstStr(DeepField(pg, "auto_id_deep")))
        user_id == Or(FirstStr(DeepField(pg, "user_id_deep")), RootField(pg, "owner_id"))
    IN IF Truthy(title) /\ ~IsStr(title) THEN [NotParsed EXCEPT !.raised = TRUE]
       ELSE IF Truthy(username) /\ ~IsStr(username) THEN [NotParsed EXCEPT !.raised = TRUE]
       ELSE [raised |-> FALSE,
             title |-> IF Truthy(title) THEN "str" ELSE "absent",
             username |-> IF Truthy(username) THEN "str" ELSE "absent",
             phone_meta |-> AllResolved(auto_id, user_id, phone_id)]

\* if not all([user_id, phone_id, auto_id]): return None, before the POST; ids are
\* the identifiers the three regular expressions matched in the html
HasAllIds(ids) == \A i \in IdNames : i \in ids

InitParse ==
    /\ page \in Pages
    /\ parsed = NotParsed
    /\ lookup = NotLooked
    /\ p_pc = "ready"
    /\ enable_phone_fetch \in BOOLEAN

InitP ==
    /\ InitSched /\ env_run_on_startup = "unset"
    /\ InitFetchIdle /\ InitRunIdle
    /\ InitScanIdle /\ InitDeepIdle /\ InitParse /\ InitLdIdle

ParseListing ==
    /\ p_pc = "ready"
    /\ parsed' = parse_listing(page)
    /\ p_pc' = "parsed"
    /\ UNCHANGED <<page, lookup, enable_phone_fetch>>
    /\ UNCHANGED <<sched_vars, fetch_vars, run_vars, scan_vars, deep_vars, ld_vars>>

\* phone_number = await self._get_phone_number(session, html, url) of
\* parse_listing_page, which does not look at ENABLE_PHONE_FETCH, and
\* _get_phone_number up to the POST
GetPhoneNumber(ids) ==
    /\ p_pc = "ready"
    /\ lookup' = [ids |-> ids, post |-> HasAllIds(ids)]
    /\ p_pc' = "looked"
    /\ UNCHANGED <<page, parsed, enable_phone_fetch>>
    /\ UNCHANGED <<sched_vars, fetch_vars, run_vars, scan_vars, deep_vars, ld_vars>>

NextParse ==
    \/ ParseListing
    \/ \E ids \in SUBSET IdNames : GetPhoneNumber(ids)

SpecParse == InitP /\ [][NextParse]_vars

----------------------------------------------------------------------------
(* Claims about parse_listing and the lookup identifiers *)

\* the page gives a phone id: a non-empty string under phoneId in the payload
PhoneIdResolved == page.pinia = "ok" /\ page.phone_id = "str"

\* the page gives an auto id: autoId of additionalParams, or a non-empty string
\* under autoId in the payload
AutoIdResolved ==
    /\ page.pinia = "ok"
    /\ \/ page.root = "mapping" /\ page.auto_id \in {"int", "str"}
       \/ page.auto_id_deep = "str"

\* the page gives a user id: a non-empty string under userId in the payload, or
\* the id of the owner
UserIdResolved ==
    /\ page.pinia = "ok"
    /\ \/ page.user_id_deep = "str"
       \/ page.root = "mapping" /\ page.owner_id \in {"int", "str"}

\* C15: parse_listing gives lookup metadata only for a page on which the auto id,
\* the user id and the phone id are all resolved, and None as soon as one of them
\* is not; _get_phone_number sends the lookup POST only when it found all three.
C15_AllOrNothingIds ==
    /\ p_pc = "parsed"
         => (parsed.phone_meta
               <=> (~parsed.raised /\ AutoIdResolved /\ UserIdResolved /\ PhoneIdResolved))
    /\ p_pc = "looked" => (lookup.post <=> lookup.ids = IdNames)

\* C15 witness: a page with auto id and user id whose phoneId is a number, not a
\* string, was parsed without metadata.
C15_Witness ==
    /\ p_pc = "parsed" /\ ~parsed.raised /\ ~parsed.phone_meta
    /\ AutoIdResolved /\ UserIdResolved /\ page.phone_id = "int"

\* C20: parse_listing returns its triple for every page text and never raises.
C20_NeverRaises == p_pc = "parsed" => ~parsed.raised

----------------------------------------------------------------------------
(* Further claims about the scheduler guard *)

\* C21: a call of _guarded with wait=False (the cron scrape job, the startup scrape
\* task) is never suspended in acquire(): it is never a waiter of the lock.
C21_ScrapeNeverQueued == \A t \in {"scrape", "startup"} : pc[t] # "waiting"

\* the values of RUN_ON_STARTUP that ask for no startup scrape
FalseLike == {"unset", "", "false", "0", "no", "off"}

\* C29: the startup scrape task is created at most once, and it is not created when
\* RUN_ON_STARTUP is unset or false-like in the environment of the process.
C29_StartupGating ==
    /\ invoked["startup"] + skipped["startup"] <= 1
    /\ env_run_on_startup \in FalseLike =>
           (pc["startup"] = "idle" /\ invoked["startup"] = 0 /\ skipped["startup"] = 0)

----------------------------------------------------------------------------
(* Further claims about the scrape run *)

\* C28: the pages are processed one by one in increasing order; a search page is
\* fetched only when every listing task of the pages before it has ended, and the
\* tasks of a page are created only when no task of an earlier page is in progress.
C28_PageBarrier ==
    /\ [][page_num' # page_num => page_num' = page_num + 1]_vars
    /\ [](r_pc \in {"loop", "search"} => InProgress = {})
    /\ [][(r_pc = "search" /\ r_pc' = "gather") => InProgress = {}]_vars

\* C28 witness: the tasks of page 1 have ended and a task of page 2 is in progress.
C28_Witness == page_num = 2 /\ r_pc = "gather" /\ finished > 0 /\ InProgress # {}

----------------------------------------------------------------------------
(* Further claims about the fetch layer *)

RECURSIVE Pow2(_)
Pow2(n) == IF n = 0 THEN 1 ELSE 2 * Pow2(n - 1)

\* C22: in _fetch every backoff sleep is followed by another attempt (a call that
\* has ended made more attempts than sleeps), and the k-th sleep lasts the base
\* delay of 1 s times 2^(k-1), capped at the 20 s ceiling.
C22_BackoffSchedule ==
    /\ FetchDone => (delays = <<>> \/ Len(delays) < attempts)
    /\ \A k \in 1..Len(delays) : delays[k] = Min(Pow2(k - 1), 20)

----------------------------------------------------------------------------
(* Further claims about the lookup *)

\* C23: with the lookup flag off (ENABLE_PHONE_FETCH false) no lookup POST is sent
\* for a listing, also not when all three identifiers were found.
C23_NoPostWhenFlagOff == (p_pc = "looked" /\ ~enable_phone_fetch) => ~lookup.post

----------------------------------------------------------------------------
(* parser.py: parse_listing, the linked data (ldJSON) and the price *)

\* the kinds of value a price source can hold: nothing, "", 0, a non-empty
\* string, a non-zero number
PriceKinds == {"absent", "empty_str", "zero", "str", "int"}

\* how the payload gives ldJSON: not at all, as a mapping, or as a string that
\* holds the JSON text of the mapping. The ld_ fields are those of the mapping.
LdForms == {"absent", "object", "string"}

LdPages ==
    {pg \in [ld_form : LdForms, ld_name : {"absent", "str"}, offers_price : PriceKinds,
             ld_mileage : {"absent", "int"}, ld_vin : {"absent", "str"},
             prices_usd : PriceKinds, title_price : {"absent", "str"},
             meta_price : {"absent", "str"}] :
        pg.ld_form = "absent"
            => \A f \in {"ld_name", "offers_price", "ld_mileage", "ld_vin"} : pg[f] = "absent"}

\* _as_dict(value): the value if it is a dict, else {}
as_dict(form) == IF form = "object" THEN "object" ELSE "empty"

\* ld_json = _as_dict(_as_dict(root).get("ldJSON")), then
\* if isinstance(ld_json, str): ld_json = json.loads(ld_json), then _as_dict again
LdJson(form) ==
    LET first == as_dict(form)
        second == IF first = "string" THEN "object" ELSE first
    IN as_dict(second)

\* ld_json.get(f)
LdField(pg, f) == IF LdJson(pg.ld_form) = "object" THEN pg[f] ELSE "absent"

\* if price_usd is None
IsMissing(k) == k = "absent"

\* the price chain of parse_listing: offers.price, prices.USD, the price pattern
\* in the title, the price pattern in the meta description; each later source is
\* asked only while price_usd is None
PriceChain(pg) ==
    LET offers == LdField(pg, "offers_price") IN
    IF ~IsMissing(offers) THEN [price |-> offers, price_from |-> "offers"]
    ELSE IF ~IsMissing(pg.prices_usd) THEN [price |-> pg.prices_usd, price_from |-> "prices"]
    ELSE IF ~IsMissing(pg.title_price) THEN [price |-> pg.title_price, price_from |-> "title"]
    ELSE IF ~IsMissing(pg.meta_price) THEN [price |-> pg.meta_price, price_from |-> "meta"]
    ELSE [price |-> "absent", price_from |-> "none"]

\* parse_listing as far as the fields fed by the linked data go (the page has no
\* other source for the name, the odometer and the VIN)
parse_listing_ld(pg) ==
    [name |-> LdField(pg, "ld_name"),
     price |-> PriceChain(pg).price,
     price_from |-> PriceChain(pg).price_from,
     odometer |-> LdField(pg, "ld_mileage"),
     car_vin |-> LdField(pg, "ld_vin")]

InitLd ==
    /\ ld_page \in LdPages
    /\ fields = NoFields
    /\ l_pc = "ready"

InitL ==
    /\ InitSched /\ env_run_on_startup = "unset"
    /\ InitFetchIdle /\ InitRunIdle
    /\ InitScanIdle /\ InitDeepIdle /\ InitParseIdle /\ InitLd

ParseListingLd ==
    /\ l_pc = "ready"
    /\ fields' = parse_listing_ld(ld_page)
    /\ l_pc' = "done"
    /\ UNCHANGED ld_page
    /\ UNCHANGED <<sched_vars, fetch_vars, run_vars, scan_vars, deep_vars, parse_vars>>

NextLd == ParseListingLd

SpecLd == InitL /\ [][NextLd]_vars

----------------------------------------------------------------------------
(* Claims about the linked data and the price *)

\* a price value that is neither empty nor zero
Valued(k) == k \in {"str", "int"}

\* the price sources in the order of precedence, for linked data given as a mapping
PriceSources(pg) ==
    <<[from |-> "offers", kind |-> IF pg.ld_form = "object" THEN pg.offers_price ELSE "absent"],
      [from |-> "prices", kind |-> pg.prices_usd],
      [from |-> "title", kind |-> pg.title_price],
      [from |-> "meta", kind |-> pg.meta_price]>>

\* C24: the price parse_listing resolves is that of the first source, in the order
\* offers.price, prices.USD, title, meta description, whose value is neither empty
\* nor zero; a source holding "" or 0 never wins over a later source with a value.
C24_PricePrecedence ==
    (l_pc = "done" /\ ld_page.ld_form # "string") =>
        LET src == PriceSources(ld_page)
            valued == {i \in 1..4 : Valued(src[i].kind)}
        IN IF valued = {} THEN ~Valued(fields.price)
           ELSE LET first == CHOOSE i \in valued : \A j \in valued : i <= j
                IN fields.price_from = src[first].from /\ fields.price = src[first].kind

\* C25: for linked data given as a JSON-encoded string parse_listing resolves the
\* same fields as for the same linked data given as a mapping.
C25_SecondParsePass ==
    (l_pc = "done" /\ ld_page.ld_form = "string")
        => fields = parse_listing_ld([ld_page EXCEPT !.ld_form = "object"])

----------------------------------------------------------------------------
(* scheduler.py: _parse_hhmm and AppScheduler.start *)

Digits == {"0", "2", "6"}
Signs == {"+", "-"}

\* the characters the configured times are made of: digits, the colon, a sign, a
\* blank and a letter
TimeChars == Digits \cup {":", "+", " ", "a"}

TimeStrings == UNION {[1..n -> TimeChars] : n \in 0..MaxTimeLen}

DigitValue(c) == CASE c = "0" -> 0 [] c = "2" -> 2 [] c = "6" -> 6 [] OTHER -> 0

\* int(s) of Python for a string of two characters does not raise: blanks around
\* the number are stripped and one sign is allowed before it
IntParses(s) ==
    \/ s[1] \in Digits /\ s[2] \in Digits
    \/ s[1] \in Signs \cup {" "} /\ s[2] \in Digits
    \/ s[1] \in Digits /\ s[2] = " "

\* the value of int(s) for such a string
IntValue(s) ==
    IF s[1] \in Digits /\ s[2] \in Digits THEN 10 * DigitValue(s[1]) + DigitValue(s[2])
    ELSE IF s[1] \in Digits THEN DigitValue(s[1])
    ELSE IF s[1] = "-" THEN 0 - DigitValue(s[2])
    ELSE DigitValue(s[2])

\* _parse_hhmm(value)
parse_hhmm(v) ==
    IF Len(v) # 5 THEN Rejected
    ELSE IF v[3] # ":" THEN Rejected
    ELSE IF ~IntParses(SubSeq(v, 1, 2)) \/ ~IntParses(SubSeq(v, 4, 5)) THEN Rejected
    ELSE LET hh == IntValue(SubSeq(v, 1, 2))
             mm == IntValue(SubSeq(v, 4, 5))
         IN IF 0 <= hh /\ hh <= 23 /\ 0 <= mm /\ mm <= 59
            THEN [ok |-> TRUE, hh |-> hh, mm |-> mm]
            ELSE Rejected

\* the time of the setting that does not hold time_value
OtherTime == <<"2", "0", ":", "0", "0">>

InitStart ==
    /\ time_value \in TimeStrings
    /\ which_time \in {"scrape_time", "dump_time"}
    /\ hhmm = Rejected
    /\ jobs = {}
    /\ sched_started = FALSE
    /\ h_pc = "ready"

InitH ==
    /\ env_run_on_startup = "unset"
    /\ cfg_run_on_startup = LoadedRunOnStartup(env_run_on_startup)
    /\ InitStart
    /\ main_pc = "main"
    /\ locked = FALSE
    /\ waiters = <<>>
    /\ woken = {}
    /\ pc = [t \in Tasks |-> "idle"]
    /\ acquiredHow = [t \in Tasks |-> "none"]
    /\ fired = [j \in CronJobs |-> 0]
    /\ dropped = [j \in CronJobs |-> 0]
    /\ invoked = [t \in Tasks |-> 0]
    /\ skipped = [t \in Tasks |-> 0]
    /\ failures = 0
    /\ escaped = {}
    /\ InitFetchIdle /\ InitRunIdle /\ InitParserIdle

\* AppScheduler.start(): both times are parsed, then both jobs are added, then the
\* scheduler is started; a ValueError of _parse_hhmm leaves start at once
Start ==
    /\ h_pc = "ready"
    /\ LET sh == parse_hhmm(IF which_time = "scrape_time" THEN time_value ELSE OtherTime)
           dh == parse_hhmm(IF which_time = "dump_time" THEN time_value ELSE OtherTime)
       IN /\ hhmm' = parse_hhmm(time_value)
          /\ IF ~sh.ok \/ ~dh.ok
             THEN /\ h_pc' = "raised"
                  /\ UNCHANGED <<jobs, sched_started>>
             ELSE /\ jobs' = {"scrape", "dump"}
                  /\ sched_started' = TRUE
                  /\ h_pc' = "started"
    /\ UNCHANGED <<time_value, which_time>>
    /\ UNCHANGED <<env_run_on_startup, cfg_run_on_startup, main_pc, locked, waiters, woken,
                   pc, acquiredHow, fired, dropped, invoked, skipped, failures, escaped>>
    /\ UNCHANGED <<fetch_vars, run_vars, parser_vars>>

NextStart == Start

SpecStart == InitH /\ [][NextStart]_vars

----------------------------------------------------------------------------
(* Claims about _parse_hhmm and start *)

\* two decimal digits, a colon, two decimal digits, hour 00-23 and minute 00-59
StrictHHMM(v) ==
    /\ Len(v) = 5
    /\ v[3] = ":"
    /\ \A i \in {1, 2, 4, 5} : v[i] \in Digits
    /\ 10 * DigitValue(v[1]) + DigitValue(v[2]) <= 23
    /\ 10 * DigitValue(v[4]) + DigitValue(v[5]) <= 59

\* C26: _parse_hhmm accepts exactly the strict HH:MM strings and raises for every
\* other value; when a configured time is rejected, start raises with no job
\* registered and the scheduler not started.
C26_StrictHHMM ==
    h_pc \in {"started", "raised"} =>
        /\ hhmm.ok <=> StrictHHMM(time_value)
        /\ h_pc = "started" <=> hhmm.ok
        /\ h_pc = "raised" => (jobs = {} /\ ~sched_started)

----------------------------------------------------------------------------
(* scraper.py: concurrent _fetch calls on self.sem *)

InitPool ==
    /\ sem_value = max_concurrency
    /\ sem_waiters = <<>>
    /\ sem_woken = {}
    /\ c_pc = [i \in Fetchers |-> "idle"]
    /\ c_attempt = [i \in Fetchers |-> 0]
    /\ permit = [i \in Fetchers |-> FALSE]

InitC ==
    /\ InitSched /\ env_run_on_startup = "unset"
    /\ max_retries \in 0..MaxPoolRetries
    /\ max_concurrency \in 1..MaxConcurrencyBound
    /\ f_pc = "idle" /\ attempt = 0 /\ backoff = 0 /\ attempts = 0 /\ delays = <<>>
    /\ last_status = 0 /\ last_error = "none" /\ only503 = TRUE /\ onlyTransport = TRUE
    /\ f_result = "pending" /\ f_raised = "none" /\ sem_held = 0
    /\ InitPool
    /\ InitRunIdle /\ InitParserIdle

\* asyncio.Semaphore.locked(): no permit left, or a waiter that is not cancelled
SemLocked(value, queue) == value = 0 \/ queue # <<>>

\* the first waiter whose future is not resolved yet, as a set
NextWaiter(queue, resolved) ==
    LET open == SelectSeq(queue, LAMBDA x : x \notin resolved)
    IN IF open = <<>> THEN {} ELSE {Head(open)}

\* mutant of PermitSpan: the sleep is written inside async with self.sem
PermitSpan_attempt == "attempt"

\* async with self.sem wraps the GET and the read of the body only; the sleep
\* and the classification of the status come after it
PermitSpan == "get"

\* _fetch is called by task i
PoolCall(i) ==
    /\ c_pc[i] = "idle"
    /\ c_pc' = [c_pc EXCEPT ![i] = "loop"]
    /\ c_attempt' = [c_attempt EXCEPT ![i] = 1]
    /\ UNCHANGED <<sem_value, sem_waiters, sem_woken, permit>>
    /\ UNCHANGED <<max_retries, f_pc, attempt, backoff, attempts, delays, last_status, last_error,
                   only503, onlyTransport, f_result, f_raised, sem_held, max_concurrency>>
    /\ UNCHANGED <<sched_vars, run_vars, parser_vars>>

\* the loop head of call i: the range is exhausted, or self.sem.acquire() takes a
\* permit at once and the GET is sent, or the call is suspended in acquire()
PoolLoop(i) ==
    /\ c_pc[i] = "loop"
    /\ IF c_attempt[i] > max_retries
       THEN /\ c_pc' = [c_pc EXCEPT ![i] = "done"]
            /\ UNCHANGED <<sem_value, sem_waiters, permit>>
       ELSE IF ~SemLocked(sem_value, sem_waiters)
       THEN /\ sem_value' = sem_value - 1
            /\ permit' = [permit EXCEPT ![i] = TRUE]
            /\ c_pc' = [c_pc EXCEPT ![i] = "request"]
            /\ UNCHANGED sem_waiters
       ELSE /\ sem_waiters' = Append(sem_waiters, i)
            /\ c_pc' = [c_pc EXCEPT ![i] = "acquiring"]
            /\ UNCHANGED <<sem_value, permit>>
    /\ UNCHANGED <<sem_woken, c_attempt>>
    /\ UNCHANGED <<max_retries, f_pc, attempt, backoff, attempts, delays, last_status, last_error,
                   only503, onlyTransport, f_result, f_raised, sem_held, max_concurrency>>
    /\ UNCHANGED <<sched_vars, run_vars, parser_vars>>

\* a waiter whose future was resolved resumes in acquire(): it leaves the queue,
\* wakes the next waiter if a permit is left, and the GET is sent
PoolResume(i) ==
    /\ c_pc[i] = "acquiring"
    /\ i \in sem_woken
    /\ LET queue == Without(sem_waiters, i)
           resolved == sem_woken \ {i}
           next == IF sem_value > 0 THEN NextWaiter(queue, resolved) ELSE {}
       IN /\ sem_waiters' = queue
          /\ sem_woken' = resolved \cup next
          /\ sem_value' = IF next = {} THEN sem_value ELSE sem_value - 1
    /\ permit' = [permit EXCEPT ![i] = TRUE]
    /\ c_pc' = [c_pc EXCEPT ![i] = "request"]
    /\ UNCHANGED c_attempt
    /\ UNCHANGED <<max_retries, f_pc, attempt, backoff, attempts, delays, last_status, last_error,
                   only503, onlyTransport, f_result, f_raised, sem_held, max_concurrency>>
    /\ UNCHANGED <<sched_vars, run_vars, parser_vars>>

\* self.sem.release() by call i: the counter goes up and the first waiter that
\* is not resolved, if any, is given the permit
SemRelease(i) ==
    LET next == NextWaiter(sem_waiters, sem_woken)
    IN /\ permit' = [permit EXCEPT ![i] = FALSE]
       /\ sem_woken' = sem_woken \cup next
       /\ sem_value' = IF next = {} THEN sem_value + 1 ELSE sem_value

\* the outcomes of one attempt: a body or a final status (the call returns), a
\* retryable status or a caught exception (the call sleeps), another exception
\* (it leaves _fetch)
AttemptOutcomes == {"return", "retry", "raise"}

\* the GET of call i is over
PoolResponse(i, outcome) ==
    /\ c_pc[i] = "request"
    /\ c_pc' = [c_pc EXCEPT ![i] = IF outcome = "retry" THEN "sleeping" ELSE "done"]
    /\ IF outcome = "retry" /\ PermitSpan # "get"
       THEN UNCHANGED <<sem_value, sem_woken, permit>>
       ELSE SemRelease(i)
    /\ UNCHANGED <<sem_waiters, c_attempt>>
    /\ UNCHANGED <<max_retries, f_pc, attempt, backoff, attempts, delays, last_status, last_error,
                   only503, onlyTransport, f_result, f_raised, sem_held, max_concurrency>>
    /\ UNCHANGED <<sched_vars, run_vars, parser_vars>>

\* asyncio.sleep(backoff) of call i returns
PoolWake(i) ==
    /\ c_pc[i] = "sleeping"
    /\ c_pc' = [c_pc EXCEPT ![i] = "loop"]
    /\ c_attempt' = [c_attempt EXCEPT ![i] = @ + 1]
    /\ IF permit[i]
       THEN SemRelease(i)
       ELSE UNCHANGED <<sem_value, sem_woken, permit>>
    /\ UNCHANGED sem_waiters
    /\ UNCHANGED <<max_retries, f_pc, attempt, backoff, attempts, delays, last_status, last_error,
                   only503, onlyTransport, f_result, f_raised, sem_held, max_concurrency>>
    /\ UNCHANGED <<sched_vars, run_vars, parser_vars>>

NextPool ==
    \/ \E i \in Fetchers : PoolCall(i)
    \/ \E i \in Fetchers : PoolLoop(i)
    \/ \E i \in Fetchers : PoolResume(i)
    \/ \E i \in Fetchers : \E outcome \in AttemptOutcomes : PoolResponse(i, outcome)
    \/ \E i \in Fetchers : PoolWake(i)

SpecPool == InitC /\ [][NextPool]_vars

----------------------------------------------------------------------------
(* Claims about the concurrency of the fetch layer *)

\* the calls whose GET is in flight
InFlight == {i \in Fetchers : c_pc[i] = "request"}

\* the calls that hold a permit of self.sem
Holders == {i \in Fetchers : permit[i]}

\* C27: the number of GET requests in flight equals the number of permits held
\* and never exceeds MAX_CONCURRENCY; a call sleeping in backoff holds no permit.
C27_FetchConcurrencyBound ==
    /\ Cardinality(InFlight) = Cardinality(Holders)
    /\ Cardinality(InFlight) <= max_concurrency
    /\ \A i \in Fetchers : c_pc[i] = "sleeping" => ~permit[i]

\* C27 witness: every permit is held by a GET in flight while one call sleeps in
\* backoff and another is suspended in acquire().
C27_Witness ==
    /\ Cardinality(InFlight) = max_concurrency
    /\ \E i, j \in Fetchers : c_pc[i] = "sleeping" /\ c_pc[j] = "acquiring"

====
